---- MODULE Spec2Model ----
(***************************************************************************)
(* A model of StackOverflowDataPipeline (src/main.py): the fetcher          *)
(* fetch_data, the writer write_to_csv with transform_dates and            *)
(* convert_date, and the orchestrator run_pipeline.                        *)
(*                                                                         *)
(* Four specifications share the variables:                                *)
(*   Spec        one run of run_pipeline over the five resource kinds;     *)
(*   SpecFetch   fetch_data called directly on one response;               *)
(*   SpecWriter  write_to_csv called directly, repeatedly, on one path;    *)
(*   SpecDates   convert_date and transform_dates called directly.         *)
(***************************************************************************)
EXTENDS Integers, Sequences, FiniteSets, TLC

VARIABLES
    pc,          \* position of the caller: which statement runs next
    kidx,        \* run_pipeline: index in Kinds of the next resource kind
    legacyJson,  \* environment: FALSE if response.json() raises a subclass of
                 \* RequestException (requests >= 2.27), TRUE if it raises a
                 \* plain ValueError (older requests)
    log,         \* the entries handed to self.logger, in order
    fs,          \* the file system: path -> [exists, lines]
    fetchCalls,  \* history: the endpoints fetch_data was called with
    writeCalls,  \* history: the (data, csv_file) write_to_csv was called with
    exc,         \* the exception that escaped the last call ("" if none)
    arg,         \* the argument of the direct calls (SpecWriter, SpecDates)
    ret          \* the value the last direct call returned

vars == <<pc, kidx, legacyJson, log, fs, fetchCalls, writeCalls, exc, arg, ret>>

-----------------------------------------------------------------------------
(* Bounds of the model.                                                    *)

MaxRecords == 2      \* records per collection handed to write_to_csv
MaxFields == 2       \* fields per record handed to transform_dates
MaxDays == 40        \* the sampled timestamps span -MaxDays..MaxDays days
MaxWrites == 2       \* direct write_to_csv calls in one SpecWriter run

-----------------------------------------------------------------------------
(* JSON values of a record: integer, text, boolean, null.  One record shape *)
(* for all four, so that any two values can be compared.                   *)

IntV(n) == [t |-> "int", i |-> n, s |-> ""]
TextV(x) == [t |-> "text", i |-> 0, s |-> x]
BoolV(b) == [t |-> "bool", i |-> IF b THEN 1 ELSE 0, s |-> ""]
NullV == [t |-> "null", i |-> 0, s |-> ""]

\* Python truth value of a JSON value: `if seconds:`
Truthy(v) ==
    CASE v.t = "int" -> v.i # 0
      [] v.t = "bool" -> v.i = 1
      [] v.t = "text" -> v.s # ""
      [] OTHER -> FALSE

\* A call's outcome: the exception it raised ("" if none) and its value.
Returned(v) == [exc |-> "", val |-> v]
Raised(e) == [exc |-> e, val |-> NullV]

-----------------------------------------------------------------------------
(* Text helpers.                                                           *)

CharAt(s, i) == SubSeq(s, i, i)

\* str.endswith
EndsWith(s, suffix) ==
    /\ Len(s) >= Len(suffix)
    /\ SubSeq(s, Len(s) - Len(suffix) + 1, Len(s)) = suffix

\* `sub` occurs in `s`
Contains(s, sub) ==
    \E i \in 1..(Len(s) - Len(sub) + 1) : SubSeq(s, i, i + Len(sub) - 1) = sub

Digits == <<"0", "1", "2", "3", "4", "5", "6", "7", "8", "9">>

IsDigit(c) == \E d \in 1..10 : Digits[d] = c

DigitVal(c) == (CHOOSE d \in 1..10 : Digits[d] = c) - 1

AllDigits(s) == Len(s) > 0 /\ \A i \in 1..Len(s) : IsDigit(CharAt(s, i))

RECURSIVE DigitsVal(_)
DigitsVal(s) ==
    IF Len(s) = 0 THEN 0
    ELSE 10 * DigitsVal(SubSeq(s, 1, Len(s) - 1)) + DigitVal(CharAt(s, Len(s)))

\* int(text): an optional sign and decimal digits; anything else is a
\* ValueError.  (Surrounding blanks and digit-group underscores, which int()
\* also accepts, do not occur in the texts of this model.)
IntOfText(s) ==
    IF AllDigits(s) THEN Returned(DigitsVal(s))
    ELSE IF Len(s) > 1 /\ CharAt(s, 1) \in {"-", "+"} /\ AllDigits(SubSeq(s, 2, Len(s)))
    THEN Returned((IF CharAt(s, 1) = "-" THEN -1 ELSE 1) * DigitsVal(SubSeq(s, 2, Len(s))))
    ELSE Raised("ValueError")

\* int(seconds) for a truthy JSON value
IntOf(v) ==
    CASE v.t = "int" -> Returned(v.i)
      [] v.t = "bool" -> Returned(v.i)
      [] v.t = "text" -> IntOfText(v.s)
      [] OTHER -> Raised("TypeError")

\* "%02d"
Pad2(n) == IF n < 10 THEN "0" \o ToString(n) ELSE ToString(n)

\* "%Y" of a year in 1000..9999 is its four digits
Pad4(n) ==
    IF n < 10 THEN "000" \o ToString(n)
    ELSE IF n < 100 THEN "00" \o ToString(n)
    ELSE IF n < 1000 THEN "0" \o ToString(n)
    ELSE ToString(n)

-----------------------------------------------------------------------------
(* datetime.utcfromtimestamp(n).strftime("%d-%m-%Y"): the proleptic         *)
(* Gregorian date of day floor(n / 86400) after 1970-01-01, computed as    *)
(* datetime does (ordinal 1 = 0001-01-01, 1970-01-01 = ordinal 719163).    *)

IsLeap(y) == y % 4 = 0 /\ (y % 100 # 0 \/ y % 400 = 0)

DaysInMonth(y, m) ==
    IF m = 2 THEN (IF IsLeap(y) THEN 29 ELSE 28)
    ELSE IF m \in {4, 6, 9, 11} THEN 30 ELSE 31

RECURSIVE DaysBeforeMonth(_, _)
DaysBeforeMonth(y, m) ==
    IF m = 1 THEN 0 ELSE DaysBeforeMonth(y, m - 1) + DaysInMonth(y, m - 1)

Ord2Ymd(ordinal) ==
    LET n0 == ordinal - 1
        n400 == n0 \div 146097
        r400 == n0 % 146097
        n100 == r400 \div 36524
        r100 == r400 % 36524
        n4 == r100 \div 1461
        r4 == r100 % 1461
        n1 == r4 \div 365
        n == r4 % 365
        year == n400 * 400 + 1 + n100 * 100 + n4 * 4 + n1
        est == (n + 50) \div 32
        month == IF DaysBeforeMonth(year, est) > n THEN est - 1 ELSE est
    IN  IF n1 = 4 \/ n100 = 4
        THEN [y |-> year - 1, m |-> 12, d |-> 31]
        ELSE [y |-> year, m |-> month, d |-> n - DaysBeforeMonth(year, month) + 1]

UtcDate(n) == Ord2Ymd(719163 + (n \div 86400))

\* Faulty variant of StrfDate: the month before the day ("%m-%d-%Y").
StrfDateMonthFirst(n) ==
    LET date == UtcDate(n)
    IN  Pad2(date.m) \o "-" \o Pad2(date.d) \o "-" \o Pad4(date.y)

StrfDate(n) ==
    LET date == UtcDate(n)
    IN  Pad2(date.d) \o "-" \o Pad2(date.m) \o "-" \o Pad4(date.y)

\* convert_date(seconds)
convert_date(seconds) ==
    IF Truthy(seconds)
    THEN LET n == IntOf(seconds)
         IN  IF n.exc # "" THEN Raised(n.exc) ELSE Returned(TextV(StrfDate(n.val)))
    ELSE Returned(TextV(""))

-----------------------------------------------------------------------------
(* Records and collections.  A record (a dict) is the sequence of its       *)
(* key/value pairs in insertion order, with distinct keys; a collection is *)
(* None or a list of records.                                              *)

Field(key, value) == [k |-> key, v |-> value]

NoneData == [none |-> TRUE, items |-> <<>>]
ListData(items) == [none |-> FALSE, items |-> items]

\* Faulty variant of DataTruthy: `if data is not None:`.
DataNotNone(data) == ~data.none

\* Python truth value of a collection: `if data:`, `if questions:`
DataTruthy(data) == ~data.none /\ Len(data.items) > 0

\* item.keys()
Keys(item) == [i \in 1..Len(item) |-> item[i].k]

HasKey(item, key) == \E i \in 1..Len(item) : item[i].k = key

\* rowdict.get(key, default)
Get(item, key, default) ==
    IF HasKey(item, key)
    THEN item[CHOOSE i \in 1..Len(item) : item[i].k = key].v
    ELSE default

\* Faulty variant of IsDateKey: `"date" in key`.
IsDateKeyAnywhere(key) == Contains(key, "date")

\* the `_date` test of transform_dates
IsDateKey(key) == EndsWith(key, "_date")

\* the inner loop of transform_dates: the record built for one item
TransformItem(item) ==
    [i \in 1..Len(item) |->
        IF IsDateKey(item[i].k)
        THEN Field(item[i].k, convert_date(item[i].v).val)
        ELSE Field(item[i].k, item[i].v)]

\* the exception convert_date raises first while one item is transformed
ItemExc(item) ==
    LET bad == {i \in 1..Len(item) :
                    IsDateKey(item[i].k) /\ convert_date(item[i].v).exc # ""}
    IN  IF bad = {} THEN ""
        ELSE convert_date(item[CHOOSE i \in bad : \A j \in bad : i <= j].v).exc

\* transform_dates(data): a new list of new records, or the first exception
transform_dates(items) ==
    LET bad == {i \in 1..Len(items) : ItemExc(items[i]) # ""}
    IN  IF bad = {}
        THEN [exc |-> "", val |-> [i \in 1..Len(items) |-> TransformItem(items[i])]]
        ELSE [exc |-> ItemExc(items[CHOOSE i \in bad : \A j \in bad : i <= j]),
              val |-> <<>>]

\* what the caller's list holds after transform_dates: the loop only reads
\* `data` and fills the new `transformed_data`, so the argument is unchanged
DataAfterTransform(items) == items

-----------------------------------------------------------------------------
(* csv.DictWriter with the default dialect: QUOTE_MINIMAL, delimiter ",",  *)
(* quote character '"' doubled inside a quoted field.  A file is the       *)
(* sequence of its lines, each without its "\r\n" terminator.              *)

\* the text csv writes for one value: None is empty, the rest is str(value)
CellText(v) ==
    CASE v.t = "int" -> ToString(v.i)
      [] v.t = "bool" -> (IF v.i = 1 THEN "True" ELSE "False")
      [] v.t = "text" -> v.s
      [] OTHER -> ""

NeedsQuote(s) ==
    \E i \in 1..Len(s) : CharAt(s, i) \in {",", "\"", "\n", "\r"}

RECURSIVE DoubleQuotes(_)
DoubleQuotes(s) ==
    IF Len(s) = 0 THEN ""
    ELSE (IF CharAt(s, 1) = "\"" THEN "\"\"" ELSE CharAt(s, 1))
            \o DoubleQuotes(SubSeq(s, 2, Len(s)))

QuoteField(s) == IF NeedsQuote(s) THEN "\"" \o DoubleQuotes(s) \o "\"" ELSE s

RECURSIVE JoinFields(_)
JoinFields(cells) ==
    IF Len(cells) = 0 THEN ""
    ELSE IF Len(cells) = 1 THEN cells[1]
    ELSE cells[1] \o "," \o JoinFields(Tail(cells))

\* writer.writerow: a row of one empty field is written as "" in quotes
FormatRow(cells) ==
    IF Len(cells) = 1 /\ cells[1] = "" THEN "\"\""
    ELSE JoinFields([i \in 1..Len(cells) |-> QuoteField(cells[i])])

\* Faulty variant of Fieldnames: the keys of all the records, in the order
\* of their first occurrence.
RECURSIVE FieldnamesOfAllRecords(_)
FieldnamesOfAllRecords(items) ==
    IF Len(items) = 0 THEN <<>>
    ELSE LET before == FieldnamesOfAllRecords(SubSeq(items, 1, Len(items) - 1))
             last == Keys(items[Len(items)])
         IN  before \o SelectSeq(last, LAMBDA k : \A n \in 1..Len(before) : before[n] # k)

\* fieldnames = data[0].keys()
Fieldnames(items) == Keys(items[1])

\* DictWriter._dict_to_list with extrasaction='ignore' and restval=''
DictToList(fieldnames, rowdict) ==
    [i \in 1..Len(fieldnames) |-> CellText(Get(rowdict, fieldnames[i], TextV("")))]

\* writeheader() then writerows(transformed_data)
CsvLines(fieldnames, rows) ==
    <<FormatRow(fieldnames)>> \o
        [i \in 1..Len(rows) |-> FormatRow(DictToList(fieldnames, rows[i]))]

-----------------------------------------------------------------------------
(* The file system and the log.                                            *)

NoFile == [exists |-> FALSE, lines |-> <<>>]
FileOf(lines) == [exists |-> TRUE, lines |-> lines]

\* Faulty variant of OpenForWrite: open(csv_file, "a").
OpenForAppend(old) == IF old.exists THEN old ELSE FileOf(<<>>)

\* open(csv_file, "w"): creates or truncates; what was there is gone
OpenForWrite(old) == FileOf(<<>>)

LogEntry(level, msg) == [level |-> level, msg |-> msg]

\* The outcomes of the I/O of one write: no error, open() fails, or an
\* OSError after n complete lines reached the file.
IoOk == [kind |-> "ok", n |-> 0]
IoOpenFails == [kind |-> "open", n |-> 0]
IoWriteFails(n) == [kind |-> "write", n |-> n]

IoErrorText(io) ==
    IF io.kind = "open" THEN "[Errno 13] Permission denied"
    ELSE "[Errno 28] No space left on device"

\* Faulty variant of HandleIoError: `except FileNotFoundError`, which takes
\* the failure of open() and lets an OSError of the writes escape.
HandleOpenErrorOnly(csv_file, io) ==
    IF io.kind = "open"
    THEN [logs |-> <<LogEntry("ERROR", "Failed to write to CSV file: " \o csv_file
                                        \o ". Error: " \o IoErrorText(io))>>,
          exc |-> ""]
    ELSE [logs |-> <<>>, exc |-> "OSError"]

\* the except clause of write_to_csv: `except IOError as e` takes every
\* OSError of open, writeheader, writerows and close, logs it and falls
\* through to the end of the function
HandleIoError(csv_file, io) ==
    [logs |-> <<LogEntry("ERROR", "Failed to write to CSV file: " \o csv_file
                                    \o ". Error: " \o IoErrorText(io))>>,
     exc |-> ""]

\* write_to_csv(data, csv_file) on file system f with I/O outcome io:
\* the new file system, the entries logged, the exception that escapes,
\* the caller's data afterwards, and what happened (for the histories).
write_to_csv(data, csv_file, io, f) ==
    IF ~DataTruthy(data)
    THEN [fs |-> f, logs |-> <<>>, exc |-> "", data |-> data, outcome |-> "noop"]
    ELSE IF data.none \/ Len(data.items) = 0
    THEN \* data[0] of None or of an empty list
         [fs |-> f, logs |-> <<>>, exc |-> IF data.none THEN "TypeError" ELSE "IndexError",
          data |-> data, outcome |-> "raised"]
    ELSE
      LET fieldnames == Fieldnames(data.items)
          transformed == transform_dates(data.items)
          after == ListData(DataAfterTransform(data.items))
          lines == CsvLines(fieldnames, transformed.val)
          opened == OpenForWrite(f[csv_file])
          handled == HandleIoError(csv_file, io)
      IN  IF transformed.exc # ""
          THEN [fs |-> f, logs |-> <<>>, exc |-> transformed.exc,
                data |-> after, outcome |-> "raised"]
          ELSE IF io.kind = "open"
          THEN [fs |-> f, logs |-> handled.logs, exc |-> handled.exc,
                data |-> after, outcome |-> "failed"]
          ELSE IF io.kind = "write"
          THEN [fs |-> [f EXCEPT ![csv_file] =
                            FileOf(opened.lines \o SubSeq(lines, 1, io.n))],
                logs |-> handled.logs, exc |-> handled.exc,
                data |-> after, outcome |-> "failed"]
          ELSE [fs |-> [f EXCEPT ![csv_file] = FileOf(opened.lines \o lines)],
                logs |-> <<>>, exc |-> "", data |-> after, outcome |-> "written"]

\* the I/O outcomes possible while `data` is written
IoOutcomes(data) ==
    IF ~DataTruthy(data) THEN {IoOk}
    ELSE {IoOk, IoOpenFails} \cup {IoWriteFails(n) : n \in 0..(Len(data.items) + 1)}

-----------------------------------------------------------------------------
(* Static configuration: run_pipeline's five kinds, in its order, each     *)
(* with the endpoint of its fetch_<kind> and the path of its output file.  *)

Kinds == <<"questions", "posts", "users", "tags", "comments">>

base_url == "https://api.stackexchange.com/2.3"

output_dir == "output"

Endpoint(kind) == base_url \o "/" \o kind

CsvPath(kind) == output_dir \o "/stackoverflow_" \o kind \o ".csv"

Paths == {CsvPath(Kinds[i]) : i \in 1..Len(Kinds)}

-----------------------------------------------------------------------------
(* SpecWriter: write_to_csv called directly, up to MaxWrites times, with   *)
(* one collection and one path, on a file system where the file may or may *)
(* not exist already.                                                      *)

WriterRecords ==
    { <<Field("a", IntV(1)), Field("b", IntV(2))>>,
      <<Field("a", IntV(3)), Field("c", IntV(4))>>,
      <<Field("id", IntV(1)), Field("creation_date", IntV(1609459200))>>,
      <<Field("creation_date", NullV), Field("name", TextV("p,q")),
        Field("b", BoolV(TRUE))>>,
      <<Field("name", TextV(""))>>,
      <<Field("creation_date", TextV("abc"))>> }

ListsOf(S, n) == UNION {[1..m -> S] : m \in 0..n}

WriterData == {NoneData} \cup {ListData(l) : l \in ListsOf(WriterRecords, MaxRecords)}

WriterPaths == {CsvPath("questions"), CsvPath("posts")}

OldFile == FileOf(<<"x", "9">>)

InitWriter ==
    /\ pc = "call"
    /\ kidx = 0
    /\ legacyJson = FALSE
    /\ log = <<>>
    /\ fs \in [Paths -> {NoFile, OldFile}]
    /\ fetchCalls = <<>>
    /\ writeCalls = <<>>
    /\ exc = ""
    /\ arg \in [data : WriterData, path : WriterPaths]
    /\ \A p \in Paths \ {arg.path} : fs[p] = NoFile
    /\ ret = NullV

\* one call self.write_to_csv(arg.data, arg.path), whole
WriteToCsv ==
    /\ pc = "call"
    /\ Len(writeCalls) < MaxWrites
    /\ \E io \in IoOutcomes(arg.data) :
        LET w == write_to_csv(arg.data, arg.path, io, fs)
        IN  /\ fs' = w.fs
            /\ log' = log \o w.logs
            /\ exc' = w.exc
            /\ arg' = [arg EXCEPT !.data = w.data]
            /\ writeCalls' = Append(writeCalls,
                    [data |-> arg.data, path |-> arg.path, io |-> io,
                     outcome |-> w.outcome])
            /\ pc' = IF w.exc = "" THEN "call" ELSE "raised"
    /\ UNCHANGED <<kidx, legacyJson, fetchCalls, ret>>

NextWriter == WriteToCsv

SpecWriter == InitWriter /\ [][NextWriter]_vars

-----------------------------------------------------------------------------
(* SpecDates: convert_date called directly on one value, transform_dates   *)
(* called directly on a list of one record.                                *)

\* epoch seconds: four instants of every day within MaxDays of the epoch,
\* and strides of 100 days and of 50 000 000 s on both sides of it
SampleSeconds ==
    {d * 86400 + o : d \in (-MaxDays)..MaxDays, o \in {0, 1, 43200, 86399}}
        \cup {k * 8640000 + 86399 : k \in (-MaxDays)..MaxDays}
        \cup {k * 50000000 : k \in (-MaxDays)..MaxDays}
        \cup {1609459200, 951782400, 2147483647, -2147483647}

DateInputs ==
    {IntV(n) : n \in SampleSeconds}
        \cup {NullV, BoolV(TRUE), BoolV(FALSE)}
        \cup {TextV(x) : x \in {"", "abc", "86400", "-86400", "12-01-2021"}}

FieldKeys == {"id", "creation_date", "_date", "dated", "date"}

FieldValues ==
    {IntV(0), IntV(-1), IntV(1609459200), TextV(""), TextV("abc"), TextV("86400"),
     BoolV(TRUE), BoolV(FALSE), NullV}

\* the records of at most n fields (distinct keys, any order)
RecordsOf(n) ==
    {r \in ListsOf({Field(k, v) : k \in FieldKeys, v \in FieldValues}, n) :
        \A i, j \in 1..Len(r) : i # j => r[i].k # r[j].k}

InitDates ==
    /\ pc = "call"
    /\ kidx = 0
    /\ legacyJson = FALSE
    /\ log = <<>>
    /\ fs = [p \in Paths |-> NoFile]
    /\ fetchCalls = <<>>
    /\ writeCalls = <<>>
    /\ exc = ""
    /\ arg \in {[seconds |-> v, items |-> <<>>] : v \in DateInputs}
                \cup {[seconds |-> NullV, items |-> <<r>>] : r \in RecordsOf(MaxFields)}
    /\ ret = NullV

\* one call self.convert_date(arg.seconds)
ConvertDate ==
    /\ pc = "call"
    /\ LET r == convert_date(arg.seconds)
       IN  /\ ret' = r.val
           /\ exc' = r.exc
    /\ pc' = "converted"
    /\ UNCHANGED <<kidx, legacyJson, log, fs, fetchCalls, writeCalls, arg>>

\* one call self.transform_dates(arg.items)
TransformDates ==
    /\ pc = "call"
    /\ LET r == transform_dates(arg.items)
       IN  /\ ret' = r.val
           /\ exc' = r.exc
    /\ arg' = [arg EXCEPT !.items = DataAfterTransform(arg.items)]
    /\ pc' = "transformed"
    /\ UNCHANGED <<kidx, legacyJson, log, fs, fetchCalls, writeCalls>>

NextDates == ConvertDate \/ TransformDates

SpecDates == InitDates /\ [][NextDates]_vars

-----------------------------------------------------------------------------
(* fetch_data.  What requests.get meets is a response of the environment:  *)
(* a transport error, or a status and a body.  A body is text that is not  *)
(* JSON ("invalid"), or a JSON value: an object, with or without the key   *)
(* `items`, an array, a string, a number or null.                          *)

Response(net, status, json, hasItems, items) ==
    [net |-> net, status |-> status, json |-> json, hasItems |-> hasItems,
     items |-> items]

TransportError(name) == Response(name, 0, "invalid", FALSE, <<>>)
HttpBody(status, json) == Response("ok", status, json, FALSE, <<>>)
HttpItems(status, items) == Response("ok", status, "object", TRUE, items)

\* response.raise_for_status(): HTTPError for a 4xx or 5xx status only
RaisesForStatus(status) == 400 <= status /\ status < 600

\* The exception of lines 63-65 for a response ("" if none).
\* response.json() raises requests.exceptions.JSONDecodeError on a body
\* that is not JSON: a RequestException in requests >= 2.27, a plain
\* ValueError before (legacy tells which is installed).
\* [...]["items"] raises TypeError on a JSON value that is no object and
\* KeyError on an object without the key.
FetchException(resp, legacy) ==
    IF resp.net # "ok" THEN resp.net
    ELSE IF RaisesForStatus(resp.status) THEN "HTTPError"
    ELSE IF resp.json = "invalid"
    THEN (IF legacy THEN "ValueError" ELSE "JSONDecodeError")
    ELSE IF resp.json # "object" THEN "TypeError"
    ELSE IF ~resp.hasItems THEN "KeyError"
    ELSE ""

\* `except requests.exceptions.RequestException`: the classes it takes
IsRequestException(e) ==
    e \in {"ConnectionError", "Timeout", "HTTPError", "JSONDecodeError"}

\* str(e) of the exception caught
ErrorText(e, resp) ==
    IF e = "HTTPError" THEN ToString(resp.status) \o " Error for url"
    ELSE IF e = "JSONDecodeError" THEN "Expecting value: line 1 column 1 (char 0)"
    ELSE IF e = "Timeout" THEN "Read timed out"
    ELSE "Failed to establish a new connection"

\* fetch_data(endpoint, params) when the request meets resp: the value
\* returned, the exception that escapes, the entries logged
fetch_data(endpoint, resp, legacy) ==
    LET e == FetchException(resp, legacy)
    IN  IF e = ""
        THEN [exc |-> "", val |-> ListData(resp.items), logs |-> <<>>]
        ELSE IF IsRequestException(e)
        THEN [exc |-> "", val |-> NoneData,
              logs |-> <<LogEntry("ERROR", "Failed to fetch data from " \o endpoint
                                        \o ". Error: " \o ErrorText(e, resp))>>]
        ELSE [exc |-> e, val |-> NoneData, logs |-> <<>>]

-----------------------------------------------------------------------------
(* SpecFetch: fetch_data called directly, once, on one response.           *)

DatedRecord == <<Field("id", IntV(1)), Field("creation_date", IntV(1609459200))>>

FetchLists == {<<>>, <<DatedRecord>>}

Statuses == {200, 201, 204, 300, 304, 400, 404, 429, 500, 503}

Responses ==
    {TransportError(n) : n \in {"ConnectionError", "Timeout"}}
        \cup {HttpBody(st, j) : st \in Statuses,
                    j \in {"invalid", "object", "array", "string", "number", "null"}}
        \cup {HttpItems(st, l) : st \in Statuses, l \in FetchLists}

InitFetch ==
    /\ pc = "call"
    /\ kidx \in 1..Len(Kinds)
    /\ legacyJson \in BOOLEAN
    /\ log = <<>>
    /\ fs = [p \in Paths |-> NoFile]
    /\ fetchCalls = <<>>
    /\ writeCalls = <<>>
    /\ exc = ""
    /\ arg \in Responses
    /\ ret = NoneData

\* one call self.fetch_data(endpoint of Kinds[kidx], params), meeting arg
FetchData ==
    /\ pc = "call"
    /\ LET f == fetch_data(Endpoint(Kinds[kidx]), arg, legacyJson)
       IN  /\ ret' = f.val
           /\ exc' = f.exc
           /\ log' = log \o f.logs
           /\ fetchCalls' = Append(fetchCalls,
                    [endpoint |-> Endpoint(Kinds[kidx]), exc |-> f.exc, val |-> f.val])
           /\ pc' = IF f.exc = "" THEN "fetched" ELSE "raised"
    /\ UNCHANGED <<kidx, legacyJson, fs, writeCalls, arg>>

NextFetch == FetchData

SpecFetch == InitFetch /\ [][NextFetch]_vars

-----------------------------------------------------------------------------
(* Spec: one run of run_pipeline.  Each of its five blocks (fetch_<kind>,  *)
(* the `if <kind>:` test, the log call and write_to_csv) is one step;      *)
(* an exception that escapes a block ends the run there.                   *)

PipelineResponses ==
    { TransportError("ConnectionError"),
      HttpBody(404, "object"),
      HttpBody(200, "invalid"),
      HttpBody(200, "object"),
      HttpItems(200, <<>>),
      HttpItems(200, <<DatedRecord>>) }

PipelineIo == {IoOk, IoOpenFails, IoWriteFails(1)}

Init ==
    /\ pc = "start"
    /\ kidx = 1
    /\ legacyJson \in BOOLEAN
    /\ log = <<>>
    /\ fs = [p \in Paths |-> NoFile]
    /\ fetchCalls = <<>>
    /\ writeCalls = <<>>
    /\ exc = ""
    /\ arg = NullV
    /\ ret = NullV

\* self.logger.info("Starting the data pipeline.")
Start ==
    /\ pc = "start"
    /\ log' = Append(log, LogEntry("INFO", "Starting the data pipeline."))
    /\ pc' = "run"
    /\ UNCHANGED <<kidx, legacyJson, fs, fetchCalls, writeCalls, exc, arg, ret>>

\* the block of run_pipeline for Kinds[kidx]
ProcessKind ==
    /\ pc = "run"
    /\ kidx <= Len(Kinds)
    /\ \E resp \in PipelineResponses, io \in PipelineIo :
        LET kind == Kinds[kidx]
            f == fetch_data(Endpoint(kind), resp, legacyJson)
            w == write_to_csv(f.val, CsvPath(kind), io, fs)
            fetched == [endpoint |-> Endpoint(kind), exc |-> f.exc, val |-> f.val]
        IN  /\ fetchCalls' = Append(fetchCalls, fetched)
            /\ IF f.exc # ""
               THEN /\ exc' = f.exc
                    /\ pc' = "raised"
                    /\ log' = log \o f.logs
                    /\ UNCHANGED <<kidx, fs, writeCalls>>
               ELSE IF DataTruthy(f.val)
               THEN /\ log' = log \o f.logs
                            \o <<LogEntry("INFO", "Fetched Stack Overflow " \o kind
                                                    \o " successfully.")>>
                            \o w.logs
                    /\ fs' = w.fs
                    /\ writeCalls' = Append(writeCalls,
                            [data |-> f.val, path |-> CsvPath(kind), io |-> io,
                             outcome |-> w.outcome])
                    /\ exc' = w.exc
                    /\ pc' = IF w.exc = "" THEN "run" ELSE "raised"
                    /\ kidx' = IF w.exc = "" THEN kidx + 1 ELSE kidx
               ELSE /\ log' = log \o f.logs
                            \o <<LogEntry("WARNING", "Failed to fetch Stack Overflow "
                                                        \o kind \o ".")>>
                    /\ kidx' = kidx + 1
                    /\ UNCHANGED <<pc, fs, writeCalls, exc>>
    /\ UNCHANGED <<legacyJson, arg, ret>>

\* the two closing logger.info calls
Finish ==
    /\ pc = "run"
    /\ kidx = Len(Kinds) + 1
    /\ log' = log \o <<LogEntry("INFO", "Data saved successfully in separate CSV files."),
                       LogEntry("INFO", "Data pipeline completed.")>>
    /\ pc' = "done"
    /\ UNCHANGED <<kidx, legacyJson, fs, fetchCalls, writeCalls, exc, arg, ret>>

Next == Start \/ ProcessKind \/ Finish

Spec == Init /\ [][Next]_vars

-----------------------------------------------------------------------------
(* The claims.                                                             *)

\* the failing response outcomes, as the specification lists them
FailingResponse(resp) ==
    \/ resp.net # "ok"
    \/ resp.status < 200 \/ resp.status > 299
    \/ resp.json # "object"
    \/ ~resp.hasItems

LastWrite == writeCalls[Len(writeCalls)]

\* this step is one call of write_to_csv
WriteStep == Len(writeCalls') = Len(writeCalls) + 1

\* C1 (as claimed): fetch_data raises nothing; it returns None for every
\* failing response outcome (transport error, non-2xx status, body that is
\* not JSON, JSON body that is no object, object without `items`) and the
\* items only for a 2xx status with an object body holding `items`.
C1_FetchReturnsNoneOnEveryFailure ==
    pc # "call" =>
        /\ exc = ""
        /\ FailingResponse(arg) => ret = NoneData
        /\ ~FailingResponse(arg) => ret = ListData(arg.items)

\* C8 (as claimed): fetch_data logs exactly one ERROR entry, holding the
\* endpoint, on every failed fetch, and logs nothing on a successful one.
C8_OneErrorEntryPerFailedFetch ==
    pc # "call" =>
        IF FailingResponse(arg)
        THEN /\ Len(log) = 1
             /\ log[1].level = "ERROR"
             /\ Contains(log[1].msg, Endpoint(Kinds[kidx]))
        ELSE log = <<>>

\* C2 (as claimed): whatever the fetch and write outcomes of the kinds, no
\* exception escapes run_pipeline, the run reaches its end having fetched
\* every one of the five kinds, and every kind whose fetch and write
\* succeeded has its output file.
C2_FailureNeverAbortsTheRun ==
    /\ pc # "raised"
    /\ pc = "done" =>
        /\ Len(fetchCalls) = Len(Kinds)
        /\ \A i \in 1..Len(Kinds) : fetchCalls[i].endpoint = Endpoint(Kinds[i])
        /\ \A j \in 1..Len(writeCalls) :
                writeCalls[j].outcome = "written" => fs[writeCalls[j].path].exists
        /\ log[Len(log)] = LogEntry("INFO", "Data pipeline completed.")

\* C10 (as claimed): a finished run has called the fetcher once per kind in
\* the fixed order; every kind whose fetch returned a collection, an empty
\* one included, has its success logged and its collection handed to the
\* writer exactly once with that kind's path; every kind whose fetch
\* failed has a warning logged and no writer call.
C10_OneWriterCallPerFetchedCollection ==
    pc = "done" =>
        /\ Len(fetchCalls) = Len(Kinds)
        /\ \A i \in 1..Len(Kinds) :
            LET kind == Kinds[i]
                calls == {j \in 1..Len(writeCalls) : writeCalls[j].path = CsvPath(kind)}
                succeeded == LogEntry("INFO", "Fetched Stack Overflow " \o kind
                                                \o " successfully.")
                warned == LogEntry("WARNING", "Failed to fetch Stack Overflow "
                                                \o kind \o ".")
                logged(e) == \E n \in 1..Len(log) : log[n] = e
            IN  /\ fetchCalls[i].endpoint = Endpoint(kind)
                /\ IF ~fetchCalls[i].val.none
                   THEN /\ Cardinality(calls) = 1
                        /\ \A j \in calls : writeCalls[j].data = fetchCalls[i].val
                        /\ logged(succeeded) /\ ~logged(warned)
                   ELSE /\ calls = {}
                        /\ logged(warned) /\ ~logged(succeeded)

C6_IoErrorIsLoggedNotRaised ==
    [][(WriteStep /\ writeCalls'[Len(writeCalls')].outcome = "failed") =>
            /\ exc' = ""
            /\ pc' = "call"
            /\ Len(log') = Len(log) + 1
            /\ SubSeq(log', 1, Len(log)) = log
            /\ log'[Len(log')].level = "ERROR"
            /\ Contains(log'[Len(log')].msg, arg.path)]_vars

\* C6 witness: the I/O failed after the header and one row, and the call
\* returned with the error logged
C6_Witness ==
    /\ Len(writeCalls) > 0
    /\ LastWrite.io = IoWriteFails(2)
    /\ LastWrite.outcome = "failed"
    /\ pc = "call"
    /\ Len(log) > 0
    /\ fs[LastWrite.path].exists

\* C7: write_to_csv with None or an empty list touches no file (a file
\* present at the path keeps its content), logs nothing and raises nothing.
C7_EmptyOrNoneIsNoOp ==
    [][(WriteStep /\ (arg.data.none \/ Len(arg.data.items) = 0)) =>
            /\ fs' = fs
            /\ log' = log
            /\ exc' = ""
            /\ pc' = "call"]_vars

\* C7 witness: called with an empty list where a file exists; the file is
\* as it was
C7_Witness ==
    /\ Len(writeCalls) > 0
    /\ LastWrite.data = ListData(<<>>)
    /\ fs[LastWrite.path] = OldFile

\* C9: a second successful write_to_csv of the same collection to the same
\* path leaves the file as the first left it, and no call alters the
\* caller's collection.
C9_SecondWriteChangesNothing ==
    [][WriteStep =>
            /\ arg' = arg
            /\ ( /\ Len(writeCalls) > 0
                 /\ LastWrite.outcome = "written"
                 /\ writeCalls'[Len(writeCalls')].outcome = "written" )
                    => fs' = fs]_vars

\* C9 witness: two successful writes of a collection with a date field
C9_Witness ==
    /\ Len(writeCalls) = 2
    /\ writeCalls[1].outcome = "written"
    /\ writeCalls[2].outcome = "written"
    /\ writeCalls[1].data = writeCalls[2].data
    /\ Len(fs[arg.path].lines) = 2
    /\ fs[arg.path].lines[2] = "1,01-01-2021"

\* what the code can convert under a `_date` key: null, booleans, integers,
\* and text that is empty or an optionally signed decimal integer
Convertible(v) ==
    v.t = "text" =>
        \/ v.s = ""
        \/ \A n \in 1..Len(v.s) :
                \/ IsDigit(CharAt(v.s, n))
                \/ n = 1 /\ Len(v.s) > 1 /\ CharAt(v.s, 1) \in {"+", "-"}

\* the one-record result has r's keys in r's order and r's values under
\* every key that does not end in `_date`
SameOutsideDateKeys(r, out) ==
    /\ Len(out) = 1
    /\ Len(out[1]) = Len(r)
    /\ \A n \in 1..Len(r) :
        /\ out[1][n].k = r[n].k
        /\ ~EndsWith(r[n].k, "_date") => out[1][n].v = r[n].v

\* C4 (as claimed): for every record r of integers, text, booleans and
\* nulls, transform_dates([r]) returns one record with r's keys in r's
\* order that differs from r only at keys ending in `_date`.
C4_EveryRecordIsTransformed ==
    (pc = "transformed" /\ Len(arg.items) = 1) =>
        /\ exc = ""
        /\ SameOutsideDateKeys(arg.items[1], ret)

\* C4 (amended): the same, for every record whose values under keys ending
\* in `_date` are null, booleans, integers, or text that is empty or a
\* decimal integer; on any other record transform_dates raises ValueError.
C4_ConvertibleRecordIsTransformed ==
    (pc = "transformed" /\ Len(arg.items) = 1) =>
        LET r == arg.items[1]
        IN  IF \A n \in 1..Len(r) : EndsWith(r[n].k, "_date") => Convertible(r[n].v)
            THEN exc = "" /\ SameOutsideDateKeys(r, ret)
            ELSE exc = "ValueError"

\* C4 witness: a record with a date field and another field has been
\* transformed; the date field changed, the other did not
C4_Witness ==
    /\ pc = "transformed"
    /\ exc = ""
    /\ arg.items = << <<Field("id", IntV(1609459200)),
                        Field("creation_date", IntV(1609459200))>> >>
    /\ ret = << <<Field("id", IntV(1609459200)),
                  Field("creation_date", TextV("01-01-2021"))>> >>

====
